---- MODULE Spec2Model ----
(***************************************************************************)
(* Model of the Climate_Platform point-data pipeline:                      *)
(*   src/app.py                  the Streamlit script (sidebar, map click, *)
(*                               st.cache_data layer)                      *)
(*   src/temperature_analyzer.py TemperatureAnalyzer (cache key, retrieval,*)
(*                               positional alignment, ensemble columns)   *)
(*                                                                         *)
(* Units: coordinates are integers in 1e-5 degree, rounded coordinates in  *)
(* 1e-4 degree; temperatures are integers in 1/100 K or 1/100 degree C;    *)
(* a calendar month is the integer 12 * year + (month - 1); time is in     *)
(* seconds.                                                                *)
(***************************************************************************)
EXTENDS Integers, Sequences, FiniteSets, TLC

VARIABLES
    start_year,    \* sidebar slider "Start Year"            (app.py:19)
    end_year,      \* sidebar slider "End Year"              (app.py:20)
    scenario,      \* sidebar selectbox "CMIP6 Scenario"     (app.py:21)
    analyzer,      \* st.session_state.analyzer              (app.py:10,30)
    last_params,   \* st.session_state.last_params           (app.py:12,31)
    last_clicked,  \* map_data['last_clicked']               (app.py:39-43)
    cache,         \* st.cache_data store of get_cached_data (app.py:56-60)
    now,           \* wall clock, seconds
    page,          \* outcome of the last script run
    runs,          \* number of script runs so far
    gateway,       \* the image collections held by the remote service
    fmt,           \* analyzer pipeline run on its own: stage, dataset, table
    kq             \* two _generate_cache_key calls: arguments and keys

vars == <<start_year, end_year, scenario, analyzer, last_params, last_clicked,
          cache, now, page, runs, gateway, fmt, kq>>

appvars == <<start_year, end_year, scenario, analyzer, last_params,
             last_clicked, cache, now, page, runs>>

\* Python's None.
None == [none |-> TRUE]

\* A missing cell of a DataFrame (NaN); a present cell holding v is <<v>>.
Missing == << >>

Some(v) == <<v>>

Abs(x) == IF x < 0 THEN -x ELSE x

Min(a, b) == IF a < b THEN a ELSE b

----------------------------------------------------------------------------
(* TemperatureAnalyzer._generate_cache_key                                 *)

\* round(x, 4) of a float x given in 1e-5 degree: the nearest multiple of
\* 1e-4, with the sign of x kept on a zero result (round(-0.00001, 4) is
\* -0.0).  The inputs of the model have no last digit 5, so no tie arises.
Round4(x) == [neg |-> x < 0, mag |-> (Abs(x) + 5) \div 10]

\* The number a rounded float denotes, in 1e-4 degree: -0.0 and 0.0 are the
\* same number.
FloatValue(f) == IF f.neg THEN -f.mag ELSE f.mag

\* The fraction digits float.__repr__ prints for fp/10000: trailing zeros
\* dropped, one digit kept.
FracDigits(fp) ==
    LET d1 == fp \div 1000
        d2 == (fp \div 100) % 10
        d3 == (fp \div 10) % 10
        d4 == fp % 10
    IN  IF d4 # 0 THEN ToString(d1) \o ToString(d2) \o ToString(d3) \o ToString(d4)
        ELSE IF d3 # 0 THEN ToString(d1) \o ToString(d2) \o ToString(d3)
        ELSE IF d2 # 0 THEN ToString(d1) \o ToString(d2)
        ELSE ToString(d1)

\* json.dumps of a float: its repr, sign included.
FloatRepr(f) ==
    (IF f.neg THEN "-" ELSE "") \o ToString(f.mag \div 10000) \o "."
        \o FracDigits(f.mag % 10000)

\* json.dumps of an int, and of a str.
IntRepr(n) == IF n < 0 THEN "-" \o ToString(-n) ELSE ToString(n)

StrRepr(s) == "\"" \o s \o "\""

\* The keys of params in the order sort_keys=True writes them.
KeyOrder == <<"end_year", "lat", "lon", "scenario", "start_year">>

KeyRank(k) == CHOOSE i \in 1..Len(KeyOrder) : KeyOrder[i] = k

\* sorted(items) by key: insertion of each item before the first one of
\* higher rank.
RECURSIVE InsertItem(_, _)
InsertItem(item, s) ==
    IF s = << >> THEN <<item>>
    ELSE IF KeyRank(item[1]) < KeyRank(Head(s)[1]) THEN <<item>> \o s
    ELSE <<Head(s)>> \o InsertItem(item, Tail(s))

RECURSIVE SortItems(_)
SortItems(s) ==
    IF s = << >> THEN << >> ELSE InsertItem(Head(s), SortItems(Tail(s)))

RECURSIVE JoinItems(_)
JoinItems(s) ==
    IF s = << >> THEN ""
    ELSE StrRepr(Head(s)[1]) \o ": " \o Head(s)[2]
         \o (IF Tail(s) = << >> THEN "" ELSE ", " \o JoinItems(Tail(s)))

\* json.dumps(params, sort_keys=True); items are <<key, value text>> pairs in
\* insertion order.
JsonDumps(items) == "{" \o JoinItems(SortItems(items)) \o "}"

\* hashlib.md5(key.encode()).hexdigest(), taken to be injective: the digest
\* of a text is represented by the text it digests.
Md5Hex(text) == <<"md5", text>>

\* The value text of one keyword argument.
KwargItem(name, q) ==
    IF name = "scenario" THEN <<name, StrRepr(q.scenario)>>
    ELSE IF name = "start_year" THEN <<name, IntRepr(q.start_year)>>
    ELSE <<name, IntRepr(q.end_year)>>

\* A key made of the coordinates alone, the keyword arguments left out.
GenerateCacheKeyNoKwargs(lat, lon, q, order) ==
    Md5Hex(JsonDumps(
        << <<"lat", FloatRepr(Round4(lat))>>, <<"lon", FloatRepr(Round4(lon))>> >>))

\* _generate_cache_key(lat, lon, **kwargs): kwargs are start_year, end_year
\* and scenario of q, passed in the order `order`.
GenerateCacheKey(lat, lon, q, order) ==
    Md5Hex(JsonDumps(
        << <<"lat", FloatRepr(Round4(lat))>>, <<"lon", FloatRepr(Round4(lon))>> >>
        \o [i \in 1..Len(order) |-> KwargItem(order[i], q)]))

\* The keyword order of the call in app.py:48-53 and of the call in
\* get_point_data (temperature_analyzer.py:78-81).
AppOrder == <<"start_year", "end_year", "scenario">>

----------------------------------------------------------------------------
(* TemperatureAnalyzer: construction and retrieval                         *)

historical_cutoff == 2022

cmip6_transition == 2015

\* ee.Number(value).subtract(273.15), in 1/100 K.
KelvinOffset == 27315

\* TemperatureAnalyzer(start_year, end_year, scenario).__init__
TemperatureAnalyzer(sy, ey, sc) ==
    [start_year |-> sy, end_year |-> ey, scenario |-> sc,
     historical_cutoff |-> historical_cutoff,
     cmip6_transition |-> cmip6_transition]

FirstMonth(year) == 12 * year

LastMonth(year) == 12 * year + 11

\* collection.filterDate(fromYMD(sy, 1, 1), fromYMD(ey, 12, 31)) on images
\* dated by month.
FilterDate(collection, sy, ey) ==
    SelectSeq(collection,
              LAMBDA im : FirstMonth(sy) <= im.month /\ im.month <= LastMonth(ey))

\* self.filtered_gldas: the historical images from start_year to
\* min(historical_cutoff, end_year).
FilteredGldas(an, gw) ==
    FilterDate(gw.gldas, an.start_year, Min(an.historical_cutoff, an.end_year))

\* self.filtered_cmip6: the projection images of the scenario from start_year
\* to end_year.
FilteredCmip6(an, gw) ==
    FilterDate(SelectSeq(gw.cmip6, LAMBDA im : im.scenario = an.scenario),
               an.start_year, an.end_year)

\* collection.distinct('model').aggregate_array('model'): the model of each
\* image, first occurrences only.
RECURSIVE DistinctModels(_, _)
DistinctModels(collection, seen) ==
    IF collection = << >> THEN << >>
    ELSE IF Head(collection).model \in seen
         THEN DistinctModels(Tail(collection), seen)
         ELSE <<Head(collection).model>>
              \o DistinctModels(Tail(collection), seen \cup {Head(collection).model})

\* _calculate_monthly_average: one temperature per image of the collection,
\* in collection order, Kelvin turned into Celsius; the 'date' property of
\* the features is not part of the aggregated array.
CalculateMonthlyAverage(collection) ==
    [i \in 1..Len(collection) |-> collection[i].kelvin - KelvinOffset]

\* A retrieval that asks for the model list again before each model.
RoundTripsRequery(models) ==
    <<"models", "gldas">>
    \o [i \in 1..(2 * Len(models)) |->
           IF i % 2 = 1 THEN "models" ELSE models[i \div 2]]

\* The getInfo() round trips of one get_point_data call, in the order the
\* code makes them: the model list (line 90), the historical series
\* (line 101), each model's series (line 102).
RoundTrips(models) == <<"models", "gldas">> \o models

\* get_point_data(lat, lon) of analyzer an against the gateway gw.  fail is
\* the round trip that raises (0: none does).  issued lists the round trips
\* made.
GetPointData(an, lat, lon, gw, fail) ==
    LET cmip6  == FilteredCmip6(an, gw)
        models == DistinctModels(cmip6, {})
        plan   == RoundTrips(models)
    IN  IF fail \in 1..Len(plan)
        THEN [status |-> "GatewayError", failed |-> plan[fail],
              issued |-> SubSeq(plan, 1, fail), data |-> None]
        ELSE [status |-> "ok", failed |-> "",
              issued |-> plan,
              data |->
                [gldas |-> CalculateMonthlyAverage(FilteredGldas(an, gw)),
                 cmip6_models |->
                    [m \in {models[i] : i \in 1..Len(models)} |->
                        CalculateMonthlyAverage(
                            SelectSeq(cmip6, LAMBDA im : im.model = m))],
                 metadata |-> [lat |-> lat, lon |-> lon,
                               scenario |-> an.scenario, models |-> models]]]

----------------------------------------------------------------------------
(* TemperatureAnalyzer.format_data_for_plotting                            *)

\* len(pd.date_range(f"{start_year}-01-01", f"{end_year}-12-31", freq='M')):
\* one month end per calendar month of the range.
NumDates(an) ==
    IF an.end_year >= an.start_year
    THEN 12 * (an.end_year - an.start_year + 1) ELSE 0

\* The calendar month of row i of the table.
DateOf(an, i) == FirstMonth(an.start_year) + (i - 1)

\* data[:n]
Take(s, n) == SubSeq(s, 1, Min(Len(s), n))

RECURSIVE SumSeq(_)
SumSeq(s) == IF s = << >> THEN 0 ELSE Head(s) + SumSeq(Tail(s))

\* The integer square root.
ISqrt(v) == CHOOSE r \in 0..v : r * r <= v /\ (r + 1) * (r + 1) > v

\* The values of the model columns in row i, for the models in `names`.
RowValues(cols, names, i) == [k \in 1..Len(names) |-> cols[names[k]][i]]

\* DataFrame.mean(axis=1) over the model columns of one row: NaN without
\* columns.  In 1/100 degree, rounded down.
RowMean(xs) ==
    IF Len(xs) = 0 THEN Missing ELSE Some(SumSeq(xs) \div Len(xs))

\* The population standard deviation (ddof=0) of one row.
RowStdPopulation(xs) ==
    IF Len(xs) = 0 THEN Missing
    ELSE LET n  == Len(xs)
             sq == SumSeq([k \in 1..n |-> xs[k] * xs[k]])
             sm == SumSeq(xs)
         IN  Some(ISqrt((n * sq - sm * sm) \div (n * n)))

\* DataFrame.std(axis=1): the sample standard deviation (ddof=1) of one row,
\* NaN with fewer than two values.  In 1/100 degree, rounded down.
RowStd(xs) ==
    IF Len(xs) < 2 THEN Missing
    ELSE LET n  == Len(xs)
             sq == SumSeq([k \in 1..n |-> xs[k] * xs[k]])
             sm == SumSeq(xs)
         IN  Some(ISqrt((n * sq - sm * sm) \div (n * (n - 1))))

\* mean + k * std on cells: NaN when either is NaN.
Band(mean, std, k) ==
    IF mean = Missing \/ std = Missing THEN Missing
    ELSE Some(mean[1] + k * std[1])

\* pandas accepts a column only when it has as many values as the frame has
\* rows (DataFrame({...}) and df[col] = list raise ValueError otherwise).
ColumnFits(column, n) == Len(column) = n

\* Cell i of a column of the frame.
Cell(column, i) == IF i <= Len(column) THEN Some(column[i]) ELSE Missing

\* format_data_for_plotting(data_key) of analyzer an, raw_data being
\* json.loads(data_key).
FormatDataForPlotting(an, raw_data) ==
    LET n      == NumDates(an)
        gldas  == Take(raw_data.gldas, n)
        \* the keys of raw_data['cmip6_models'] in dict order, which is the
        \* order of the model list
        names  == raw_data.metadata.models
        cols   == [m \in DOMAIN raw_data.cmip6_models |->
                      Take(raw_data.cmip6_models[m], n)]
        fits   == /\ ColumnFits(gldas, n)
                  /\ \A m \in DOMAIN cols : ColumnFits(cols[m], n)
        row(i) ==
            LET xs      == RowValues(cols, names, i)
                mean    == RowMean(xs)
                std     == RowStd(xs)
            IN  [date        |-> DateOf(an, i),
                 GLDAS       |-> Cell(gldas, i),
                 models      |-> [m \in DOMAIN cols |-> Cell(cols[m], i)],
                 CMIP6_mean  |-> mean,
                 CMIP6_std   |-> std,
                 CMIP6_upper |-> Band(mean, std, 2),
                 CMIP6_lower |-> Band(mean, std, -2)]
    IN  IF fits
        THEN [status |-> "ok", df |-> [i \in 1..n |-> row(i)]]
        ELSE [status |-> "ValueError", df |-> << >>]

\* str(data): the repr of the dict, which quotes its keys with ' and is no
\* JSON text; json.dumps(data) is one.
PyStr(data) == [text |-> "repr", of |-> data]

JsonDumpsData(data) == [text |-> "json", of |-> data]

\* json.loads(text): the value of a JSON text, JSONDecodeError otherwise.
JsonLoads(s) ==
    IF s.text = "json" THEN [status |-> "ok", value |-> s.of]
    ELSE [status |-> "JSONDecodeError", value |-> None]

\* format_data_for_plotting(data_key), json.loads included.
FormatDataKey(an, data_key) ==
    LET parsed == JsonLoads(data_key)
    IN  IF parsed.status = "ok" THEN FormatDataForPlotting(an, parsed.value)
        ELSE [status |-> parsed.status, df |-> << >>]

----------------------------------------------------------------------------
(* app.py: the script Streamlit runs top to bottom on every interaction    *)

\* @st.cache_data(ttl=3600)
TTL == 3600

\* The bounds of the model.
MaxRuns == 4

MaxTicks == 2

TickSeconds == 1800

\* The sidebar values and the click positions the model draws from; the
\* defaults of the widgets (2010, 2050, ssp585) are among them.
StartYears == {2010, 2020}

EndYears == {2021, 2050}

Scenarios == {"ssp126", "ssp585"}

Clicks == {[lat |-> 4000001, lng |-> -10500000],
           [lat |-> 4000004, lng |-> -10500000],
           [lat |-> -1, lng |-> -10500000]}

\* The images the remote service holds while the app runs: four historical
\* months, two ssp585 models, no ssp126 model.
AppGateway ==
    [gldas |-> << [month |-> FirstMonth(2010), kelvin |-> 27315],
                  [month |-> FirstMonth(2020), kelvin |-> 27415],
                  [month |-> FirstMonth(2021), kelvin |-> 27515],
                  [month |-> FirstMonth(2023), kelvin |-> 27615] >>,
     cmip6 |-> << [month |-> FirstMonth(2020), kelvin |-> 28315,
                   scenario |-> "ssp585", model |-> "A"],
                  [month |-> FirstMonth(2020), kelvin |-> 29315,
                   scenario |-> "ssp585", model |-> "B"],
                  [month |-> FirstMonth(2021), kelvin |-> 28415,
                   scenario |-> "ssp585", model |-> "A"] >>]

NoKey == Md5Hex("")

IdlePage ==
    [status |-> "idle", key |-> NoKey, calls |-> 0, issued |-> << >>,
     failed |-> "", data |-> None, producer |-> None, reinit |-> FALSE]

\* A cache whose entries never expire.
CacheLiveForever(c, key, t) == key \in DOMAIN c

\* st.cache_data(ttl=3600) lookup: the entry stored under the key, while it
\* is younger than the time-to-live.
CacheLive(c, key, t) == key \in DOMAIN c /\ t < c[key].stored_at + TTL

\* A cache that stores whatever the producer call ended with.
CacheAfterCallPoisoned(c, key, res, an, t) ==
    (key :> [value |-> res.data, stored_at |-> t, producer |-> an]) @@ c

\* st.cache_data on a miss: the value the function returned is stored under
\* the key; a call that raised stores nothing.  The store has no max_entries.
\* producer notes the analyzer that made the call.
CacheAfterCall(c, key, res, an, t) ==
    IF res.status = "ok"
    THEN (key :> [value |-> res.data, stored_at |-> t, producer |-> an]) @@ c
    ELSE c

\* One run of the script with the sidebar at (sy, ey, sc) and the map's
\* last click at click; fail is the round trip of get_point_data that raises.
ScriptRun(sy, ey, sc, click, fail) ==
    LET current_params == [start_year |-> sy, end_year |-> ey, scenario |-> sc]
        reinit == last_params # current_params
        an     == IF reinit THEN TemperatureAnalyzer(sy, ey, sc) ELSE analyzer
        key    == GenerateCacheKey(click.lat, click.lng, current_params, AppOrder)
        hit    == CacheLive(cache, key, now)
        res    == GetPointData(an, click.lat, click.lng, gateway, fail)
    IN  /\ runs' = runs + 1
        /\ start_year' = sy /\ end_year' = ey /\ scenario' = sc
        /\ analyzer' = an
        /\ last_params' = current_params
        /\ last_clicked' = click
        /\ IF click = None
           THEN /\ fail = 0
                /\ cache' = cache
                /\ page' = [IdlePage EXCEPT !.reinit = reinit]
           ELSE IF hit
           THEN /\ fail = 0
                /\ cache' = cache
                \* get_formatted_data(str(data)): json.loads of a repr raises
                /\ page' = [status   |-> FormatDataKey(an, PyStr(cache[key].value)).status,
                            key      |-> key, calls |-> 0, issued |-> << >>,
                            failed   |-> "",
                            data     |-> cache[key].value,
                            producer |-> cache[key].producer,
                            reinit   |-> reinit]
           ELSE /\ fail \in 0..Len(RoundTrips(DistinctModels(FilteredCmip6(an, gateway), {})))
                /\ cache' = CacheAfterCall(cache, key, res, an, now)
                /\ page' = [status   |-> IF res.status = "ok"
                                         THEN FormatDataKey(an, PyStr(res.data)).status
                                         ELSE res.status,
                            key      |-> key, calls |-> 1, issued |-> res.issued,
                            failed   |-> res.failed,
                            data     |-> res.data,
                            producer |-> IF res.status = "ok" THEN an ELSE None,
                            reinit   |-> reinit]
        /\ UNCHANGED <<now, gateway, fmt, kq>>

\* The first run of a session: the widgets at their defaults, no click yet.
Load ==
    /\ runs = 0
    /\ \E fail \in {0} : ScriptRun(start_year, end_year, scenario, None, fail)

ChangeStartYear ==
    /\ runs > 0 /\ runs < MaxRuns
    /\ \E y \in StartYears \ {start_year} : \E fail \in 0..(Len(gateway.cmip6) + 2) :
          ScriptRun(y, end_year, scenario, last_clicked, fail)

ChangeEndYear ==
    /\ runs > 0 /\ runs < MaxRuns
    /\ \E y \in EndYears \ {end_year} : \E fail \in 0..(Len(gateway.cmip6) + 2) :
          ScriptRun(start_year, y, scenario, last_clicked, fail)

ChangeScenario ==
    /\ runs > 0 /\ runs < MaxRuns
    /\ \E sc \in Scenarios \ {scenario} : \E fail \in 0..(Len(gateway.cmip6) + 2) :
          ScriptRun(start_year, end_year, sc, last_clicked, fail)

MapClick ==
    /\ runs > 0 /\ runs < MaxRuns
    /\ \E c \in Clicks \ {last_clicked} : \E fail \in 0..(Len(gateway.cmip6) + 2) :
          ScriptRun(start_year, end_year, scenario, c, fail)

\* Time passes between interactions.
Tick ==
    /\ runs > 0
    /\ now + TickSeconds <= MaxTicks * TickSeconds
    /\ now' = now + TickSeconds
    /\ UNCHANGED <<start_year, end_year, scenario, analyzer, last_params,
                   last_clicked, cache, page, runs, gateway, fmt, kq>>

NoFmt == [stage |-> "off"]

NoKq == [stage |-> "off"]

Init ==
    /\ start_year = 2010 /\ end_year = 2050 /\ scenario = "ssp585"
    /\ analyzer = None /\ last_params = None /\ last_clicked = None
    /\ cache = << >>
    /\ now = 0
    /\ page = IdlePage
    /\ runs = 0
    /\ gateway = AppGateway
    /\ fmt = NoFmt
    /\ kq = NoKq

Next ==
    \/ Load
    \/ ChangeStartYear
    \/ ChangeEndYear
    \/ ChangeScenario
    \/ MapClick
    \/ Tick

Spec == Init /\ [][Next]_vars

----------------------------------------------------------------------------
(* A long session: clicks at ever new positions, nothing else               *)

\* @lru_cache(maxsize=128)
maxsize == 128

MaxDistinct == 130

\* A click at a position no earlier click of the session had.
DistinctClick ==
    /\ runs > 0 /\ runs <= MaxDistinct
    /\ \E fail \in {0} :
          ScriptRun(start_year, end_year, scenario,
                    [lat |-> 10 * runs, lng |-> -10500000], fail)

NextDistinct ==
    \/ Load
    \/ DistinctClick

SpecDistinct == Init /\ [][NextDistinct]_vars

\* The entries of the store a lookup would still return.
LiveEntries == {k \in DOMAIN cache : CacheLive(cache, k, now)}

----------------------------------------------------------------------------
(* Properties of the app                                                    *)

\* A step that is a script run serving a click.
ClickRequest == runs' = runs + 1 /\ last_clicked' # None

\* The sidebar values as one record.
Sidebar == [start_year |-> start_year, end_year |-> end_year, scenario |-> scenario]

\* The values an analyzer was built with.
BuiltWith(an) ==
    [start_year |-> an.start_year, end_year |-> an.end_year, scenario |-> an.scenario]

\* C1: a request whose key has an entry stored less than the time-to-live
\* ago makes no call of get_point_data and returns the stored dataset; a
\* request whose key has no entry, or an entry as old as the time-to-live or
\* older, makes exactly one call.
C1_CacheServesWithinTtl ==
    [][ClickRequest =>
          IF page'.key \in DOMAIN cache /\ now < cache[page'.key].stored_at + TTL
          THEN page'.calls = 0 /\ page'.data = cache[page'.key].value
          ELSE page'.calls = 1]_vars

\* C1: a second click, at another position with the same key, was served
\* the dataset the first one stored.
C1_Witness ==
    /\ page.calls = 0 /\ page.data # None
    /\ page.data.metadata.lat # last_clicked.lat

\* C3: after a request whose get_point_data raised, no dataset is returned
\* and the key has no entry a lookup would return; every stored entry is the
\* whole dataset of a retrieval in which no round trip failed.
C3_FailureStoresNothing ==
    /\ page.status = "GatewayError" =>
          /\ page.data = None
          /\ page.calls = 1
          /\ ~CacheLive(cache, page.key, now)
    /\ \A k \in DOMAIN cache :
          cache[k].value =
              GetPointData(cache[k].producer, cache[k].value.metadata.lat,
                           cache[k].value.metadata.lon, gateway, 0).data

\* C3: the series of the second model failed after the first one's was
\* fetched.
C3_Witness ==
    /\ page.status = "GatewayError" /\ page.failed = "B"
    /\ Len(page.issued) = 4

\* The number of round trips of the list `issued` that ask for `what`.
Asked(issued, what) == Cardinality({i \in 1..Len(issued) : issued[i] = what})

\* C4 as stated: a call of get_point_data that does not fail makes 1 + N
\* round trips for N models.
C4_OnePlusN ==
    (page.calls = 1 /\ page.data # None) =>
        Len(page.issued) = 1 + Len(page.data.metadata.models)

\* C4 amended: a call of get_point_data that does not fail makes 2 + N round
\* trips for N models: one for the model list, one for the historical
\* series, one for each model.
C4_TwoPlusN ==
    (page.calls = 1 /\ page.data # None) =>
        LET models == page.data.metadata.models
        IN  /\ Len(page.issued) = 2 + Len(models)
            /\ Asked(page.issued, "models") = 1
            /\ Asked(page.issued, "gldas") = 1
            /\ \A i \in 1..Len(models) : Asked(page.issued, models[i]) = 1

\* C4: a retrieval for a scenario with two models went through.
C4_Witness ==
    /\ page.calls = 1 /\ page.data # None
    /\ Len(page.data.metadata.models) = 2

\* C8 as stated: the store of get_cached_data never holds more than 128
\* entries.
C8_AtMostMaxsize == Cardinality(LiveEntries) <= maxsize

\* C10: the dataset a click is served was retrieved by an analyzer built with
\* the sidebar values of that click, at coordinates that round to the clicked
\* ones; the session's analyzer is built with the sidebar values, with
\* start_year < end_year; and a run builds a new analyzer exactly when the
\* sidebar differs from what the analyzer was built with.
C10_ServedForCurrentParams ==
    /\ [](/\ page.data # None =>
               /\ BuiltWith(page.producer) = Sidebar
               /\ FloatValue(Round4(page.data.metadata.lat))
                     = FloatValue(Round4(last_clicked.lat))
               /\ FloatValue(Round4(page.data.metadata.lon))
                     = FloatValue(Round4(last_clicked.lng))
          /\ runs > 0 =>
               /\ BuiltWith(analyzer) = Sidebar
               /\ analyzer.start_year < analyzer.end_year)
    /\ [][runs' = runs + 1 =>
             (page'.reinit <=> (analyzer = None \/ BuiltWith(analyzer) # Sidebar'))]_vars

\* C10: after a change of the sidebar, a click at another position with the
\* same key was served from the store.
C10_Witness ==
    /\ page.calls = 0 /\ page.data # None
    /\ page.data.metadata.lat # last_clicked.lat
    /\ Sidebar # [start_year |-> 2010, end_year |-> 2050, scenario |-> "ssp585"]

----------------------------------------------------------------------------
(* _generate_cache_key on pairs of queries                                  *)

KeyLats == {-1, 1, 4000001, 4000004}

KeyLons == {-10500000, -10500012}

KeyOrders == {AppOrder, <<"scenario", "end_year", "start_year">>}

KeyQueries ==
    [lat : KeyLats, lon : KeyLons, start_year : StartYears,
     end_year : EndYears, scenario : Scenarios, order : KeyOrders]

InitKeys ==
    /\ start_year = 2010 /\ end_year = 2050 /\ scenario = "ssp585"
    /\ analyzer = None /\ last_params = None /\ last_clicked = None
    /\ cache = << >>
    /\ now = 0
    /\ page = IdlePage
    /\ runs = 0
    /\ gateway = AppGateway
    /\ fmt = NoFmt
    /\ \E p1 \in KeyQueries, p2 \in KeyQueries :
          kq = [stage |-> "args", p1 |-> p1, p2 |-> p2, key1 |-> NoKey, key2 |-> NoKey]

\* The two calls of _generate_cache_key.
GenerateKeys ==
    /\ kq.stage = "args"
    /\ kq' = [kq EXCEPT !.stage = "keys",
                        !.key1 = GenerateCacheKey(kq.p1.lat, kq.p1.lon, kq.p1, kq.p1.order),
                        !.key2 = GenerateCacheKey(kq.p2.lat, kq.p2.lon, kq.p2, kq.p2.order)]
    /\ UNCHANGED <<appvars, gateway, fmt>>

NextKeys == GenerateKeys

SpecKeys == InitKeys /\ [][NextKeys]_vars

\* Same years and scenario, and coordinates that are equal numbers after
\* rounding to 4 decimals.
SameQuery(p1, p2) ==
    /\ p1.start_year = p2.start_year
    /\ p1.end_year = p2.end_year
    /\ p1.scenario = p2.scenario
    /\ FloatValue(Round4(p1.lat)) = FloatValue(Round4(p2.lat))
    /\ FloatValue(Round4(p1.lon)) = FloatValue(Round4(p2.lon))

\* C2 as stated: two queries get the same key exactly when they have the
\* same years and scenario and coordinates equal after rounding to 4
\* decimals, whatever the order of the keyword arguments.
C2_SameKeyIffSameQuery ==
    kq.stage = "keys" => ((kq.key1 = kq.key2) <=> SameQuery(kq.p1, kq.p2))

----------------------------------------------------------------------------
(* get_point_data followed by format_data_for_plotting, on its own          *)

\* The years the remote collections of these runs span.
WorldYears == [first |-> 2010, last |-> 2023]

WorldMonths == LastMonth(WorldYears.last) - FirstMonth(WorldYears.first) + 1

\* The place, in a full series, of the month a gapped collection lacks: March
\* of the first year.
GapIndex == (FirstMonth(WorldYears.first) + 2) - FirstMonth(WorldYears.first) + 1

\* How a collection covers the months.
Shapes == {"full", "short", "gap", "dupgap"}

\* One image of a series: its month, and a value that is constant, or rises
\* by 0.10 K a month when ramp holds.
ImageAt(i, base, ramp) ==
    [month  |-> FirstMonth(WorldYears.first) + (i - 1),
     kelvin |-> base + (IF ramp THEN 10 * (i - 1) ELSE 0)]

\* The images of one series, in date order.  full: one image for every month;
\* short: the series stops after November of the first year; gap: March of
\* the first year has no image; dupgap: March of the first year has none and
\* February has two.
SeriesImages(shape, base, ramp) ==
    LET full == [i \in 1..WorldMonths |-> ImageAt(i, base, ramp)]
    IN  IF shape = "full" THEN full
        ELSE IF shape = "short" THEN SubSeq(full, 1, 11)
        ELSE IF shape = "gap"
             THEN SelectSeq(full, LAMBDA im : im.month # full[GapIndex].month)
        ELSE [full EXCEPT ![GapIndex] =
                 [month  |-> full[GapIndex - 1].month,
                  kelvin |-> full[GapIndex - 1].kelvin + 5]]

\* The projection images of one model.
ModelImages(model, shape, base, ramp) ==
    LET ims == SeriesImages(shape, base, ramp)
    IN  [i \in 1..Len(ims) |->
            [month |-> ims[i].month, kelvin |-> ims[i].kelvin,
             scenario |-> "ssp585", model |-> model]]

\* A gateway holding a 273.15 K historical series, n ssp585 models (A at
\* 283.15 K, B at 293.15 K) and one image of another scenario.
FmtGateway(hshape, ramp, ashape, n) ==
    [gldas |-> SeriesImages(hshape, 27315, ramp),
     cmip6 |-> << [month |-> FirstMonth(WorldYears.first), kelvin |-> 30000,
                   scenario |-> "ssp126", model |-> "C"] >>
               \o (IF n >= 1 THEN ModelImages("A", ashape, 28315, ramp) ELSE << >>)
               \o (IF n >= 2 THEN ModelImages("B", "full", 29315, ramp) ELSE << >>)]

FmtYears == {<<2010, 2010>>, <<2010, 2012>>, <<2022, 2023>>}

InitFmt ==
    /\ start_year = 2010 /\ end_year = 2050 /\ scenario = "ssp585"
    /\ analyzer = None /\ last_params = None /\ last_clicked = None
    /\ cache = << >>
    /\ now = 0
    /\ page = IdlePage
    /\ runs = 0
    /\ kq = NoKq
    /\ \E hshape \in Shapes, ramp \in BOOLEAN, ashape \in Shapes, n \in 0..2 :
          /\ (n = 0 => ashape = "full")
          /\ gateway = FmtGateway(hshape, ramp, ashape, n)
    /\ \E ys \in FmtYears :
          fmt = [stage |-> "new",
                 an    |-> TemperatureAnalyzer(ys[1], ys[2], "ssp585"),
                 lat   |-> 4000000, lon |-> -10500000,
                 data  |-> None,
                 out   |-> [status |-> "", df |-> << >>]]

\* data = analyzer.get_point_data(lat, lon), no round trip failing.
Retrieve ==
    /\ fmt.stage = "new"
    /\ fmt' = [fmt EXCEPT !.stage = "retrieved",
                          !.data = GetPointData(fmt.an, fmt.lat, fmt.lon, gateway, 0).data]
    /\ UNCHANGED <<appvars, gateway, kq>>

\* df = analyzer.format_data_for_plotting(json.dumps(data))
Format ==
    /\ fmt.stage = "retrieved"
    /\ fmt' = [fmt EXCEPT !.stage = "formatted",
                          !.out = FormatDataKey(fmt.an, JsonDumpsData(fmt.data))]
    /\ UNCHANGED <<appvars, gateway, kq>>

NextFmt ==
    \/ Retrieve
    \/ Format

SpecFmt == InitFmt /\ [][NextFmt]_vars

----------------------------------------------------------------------------
(* Properties of the table                                                  *)

\* The series of the dataset, by column: the historical one and each model's.
SeriesOf(data) ==
    [c \in {"GLDAS"} \cup DOMAIN data.cmip6_models |->
        IF c = "GLDAS" THEN data.gldas ELSE data.cmip6_models[c]]

\* The cell of column c in row i of the table.
CellOf(df, c, i) == IF c = "GLDAS" THEN df[i].GLDAS ELSE df[i].models[c]

\* The images of the gateway behind column c.
ImagesOf(an, gw, c) ==
    IF c = "GLDAS" THEN FilteredGldas(an, gw)
    ELSE SelectSeq(FilteredCmip6(an, gw), LAMBDA im : im.model = c)

\* The value a series has for calendar month m: that of the month's one
\* image, none when the month has no image or several.
MonthValue(images, m) ==
    LET of == SelectSeq(images, LAMBDA im : im.month = m)
    IN  IF Len(of) = 1 THEN Some(of[1].kelvin - KelvinOffset) ELSE Missing

\* C5 as stated: when a series of the dataset is shorter than the month
\* axis, the table still has one row per month, and every column holds its
\* series in the leading rows and missing in the rest.
C5_ShortSeriesPadded ==
    (/\ fmt.stage = "formatted"
     /\ \E c \in DOMAIN SeriesOf(fmt.data) :
           Len(SeriesOf(fmt.data)[c]) < NumDates(fmt.an)) =>
        /\ fmt.out.status = "ok"
        /\ Len(fmt.out.df) = NumDates(fmt.an)
        /\ \A c \in DOMAIN SeriesOf(fmt.data) : \A i \in 1..NumDates(fmt.an) :
              CellOf(fmt.out.df, c, i) =
                  IF i <= Len(SeriesOf(fmt.data)[c])
                  THEN Some(SeriesOf(fmt.data)[c][i]) ELSE Missing

\* C6 as stated: with no model for the scenario, retrieval and formatting
\* end without an error, the table has no model column, mean, std, upper
\* and lower are missing in every row and the historical column is filled.
C6_NoModelsNoError ==
    (/\ fmt.stage = "formatted"
     /\ DistinctModels(FilteredCmip6(fmt.an, gateway), {}) = << >>) =>
        /\ fmt.out.status = "ok"
        /\ Len(fmt.out.df) = NumDates(fmt.an)
        /\ \A i \in 1..Len(fmt.out.df) :
              /\ DOMAIN fmt.out.df[i].models = {}
              /\ fmt.out.df[i].CMIP6_mean = Missing
              /\ fmt.out.df[i].CMIP6_std = Missing
              /\ fmt.out.df[i].CMIP6_upper = Missing
              /\ fmt.out.df[i].CMIP6_lower = Missing
              /\ fmt.out.df[i].GLDAS # Missing

\* The run of the end-to-end scenario: 2010 to 2012, ssp585, at 40.0, -105.0,
\* constant series of 273.15 K, 283.15 K and 293.15 K for every month.
EndToEnd ==
    /\ fmt.stage = "formatted"
    /\ fmt.an = TemperatureAnalyzer(2010, 2012, "ssp585")
    /\ fmt.lat = 4000000 /\ fmt.lon = -10500000
    /\ gateway = FmtGateway("full", FALSE, "full", 2)

\* C7 as stated: the table of the end-to-end scenario has 24 rows, with
\* historical 0.0, mean 15.0 and std 5.0 in each.
C7_Rows24Std5 ==
    EndToEnd =>
        /\ fmt.out.status = "ok"
        /\ Len(fmt.out.df) = 24
        /\ \A i \in 1..Len(fmt.out.df) :
              /\ fmt.out.df[i].GLDAS = Some(0)
              /\ fmt.out.df[i].CMIP6_mean = Some(1500)
              /\ fmt.out.df[i].CMIP6_std = Some(500)

\* C7 amended: the table of the end-to-end scenario has 36 rows, one for
\* each month of 2010 to 2012, with historical 0.0, mean 15.0 and the sample
\* standard deviation 7.07 (the square root of 50, to 1/100 degree) in each.
C7_Rows36SampleStd ==
    EndToEnd =>
        /\ fmt.out.status = "ok"
        /\ Len(fmt.out.df) = 36
        /\ \A i \in 1..Len(fmt.out.df) :
              /\ fmt.out.df[i].date = FirstMonth(2010) + (i - 1)
              /\ fmt.out.df[i].GLDAS = Some(0)
              /\ DOMAIN fmt.out.df[i].models = {"A", "B"}
              /\ fmt.out.df[i].CMIP6_mean = Some(1500)
              /\ fmt.out.df[i].CMIP6_std = Some(707)

\* C7: the end-to-end scenario was formatted into a table.
C7_Witness == EndToEnd /\ fmt.out.status = "ok" /\ Len(fmt.out.df) > 0

\* C9 as stated: in a table, the cell of each series in the row of calendar
\* month m is the value the series has for month m, and missing when the
\* series has no value, or several, for m.
C9_AlignedByMonth ==
    (fmt.stage = "formatted" /\ fmt.out.status = "ok") =>
        \A c \in DOMAIN SeriesOf(fmt.data) : \A i \in 1..Len(fmt.out.df) :
            CellOf(fmt.out.df, c, i)
                = MonthValue(ImagesOf(fmt.an, gateway, c), fmt.out.df[i].date)

====
